---- MODULE Spec2Model ----
(***************************************************************************)
(* A model of SimPEG's weighted l2 data misfit (SimPEG/DataMisfit.py) and  *)
(* of the time-domain EM waveforms and sources (SimPEG/EM/TDEM/SrcTDEM.py).*)
(*                                                                         *)
(* Python values are modelled as follows.                                  *)
(*   - None is the empty tuple <<>>, any other optional value x is <<x>>.  *)
(*   - A float is an exact number <<n, d, e>> standing for n/d * 10^e.     *)
(*   - A vector is a sequence of numbers, a matrix a sequence of rows.     *)
(*   - A raised exception is the name of its class in the field err of the *)
(*     record ret that every operation leaves behind.                      *)
(***************************************************************************)
EXTENDS Integers, Sequences, FiniteSets, TLC

VARIABLES survey, dmis, ret, prob, src, sret

vars == <<survey, dmis, ret, prob, src, sret>>

None == <<>>

Some(x) == <<x>>

\* Bind(e, F) is F(e) with e evaluated once, as an assignment statement does.
Bind(e, F(_)) == CHOOSE y \in {F(x) : x \in {e}} : TRUE

(***************************************************************************)
(* Bounds of the model.                                                    *)
(***************************************************************************)
ND == 2        \* survey.nD, the number of data
NP == 2        \* the number of model parameters
MaxM == 1      \* entries of a model m and of a vector v are in 0..MaxM
MaxD == 1      \* the non-zero datum of dobs is in -MaxD..MaxD
MaxW == 2      \* entries of an assigned W are in -MaxW..MaxW
MaxSteps == 2  \* prob.timeSteps has 1..MaxSteps steps
MaxDt == 2     \* each of them of a length in 1..MaxDt
MaxT == 2      \* the time handed to a source is in 0..MaxT

(***************************************************************************)
(* Exact arithmetic standing for the floats of the program.  A number is   *)
(* <<n, d, e>> = n/d * 10^e in lowest terms, d > 0 coprime to 10, n not a  *)
(* multiple of 10, and zero is <<0, 1, 0>>.                                *)
(***************************************************************************)
Abs(x) == IF x < 0 THEN -x ELSE x

Sign(x) == IF x < 0 THEN -1 ELSE 1

RECURSIVE Gcd(_, _)
Gcd(a, b) == IF b = 0 THEN a ELSE Gcd(b, a % b)

RECURSIVE Pow10(_)
Pow10(k) == IF k = 0 THEN 1 ELSE 10 * Pow10(k - 1)

RECURSIVE Strip(_, _, _)
Strip(n, d, e) ==
    IF n % 10 = 0 THEN Strip(n \div 10, d, e + 1)
    ELSE IF d % 10 = 0 THEN Strip(n, d \div 10, e - 1)
    ELSE IF d % 2 = 0 THEN Strip(n * 5, d \div 2, e - 1)
    ELSE IF d % 5 = 0 THEN Strip(n * 2, d \div 5, e - 1)
    ELSE <<n, d, e>>

Num(n, d, e) ==
    IF n = 0 THEN <<0, 1, 0>>
    ELSE Bind(Gcd(Abs(n), Abs(d)), LAMBDA g :
         Bind(Strip(Abs(n) \div g, Abs(d) \div g, e), LAMBDA t :
         <<Sign(n) * Sign(d) * t[1], t[2], t[3]>>))

I(k) == Num(k, 1, 0)

Mul(x, y) ==
    Bind(<<x, y>>, LAMBDA p :
    Bind(<<Gcd(Abs(p[1][1]), p[2][2]), Gcd(Abs(p[2][1]), p[1][2])>>, LAMBDA g :
    Num((p[1][1] \div g[1]) * (p[2][1] \div g[2]),
        (p[1][2] \div g[2]) * (p[2][2] \div g[1]), p[1][3] + p[2][3])))

Add(x, y) ==
    Bind(<<x, y>>, LAMBDA p :
    IF p[1][1] = 0 THEN p[2]
    ELSE IF p[2][1] = 0 THEN p[1]
    ELSE Bind(IF p[1][3] < p[2][3] THEN p[1][3] ELSE p[2][3], LAMBDA e :
         Bind(Gcd(p[1][2], p[2][2]), LAMBDA g :
         Num(p[1][1] * Pow10(p[1][3] - e) * (p[2][2] \div g)
               + p[2][1] * Pow10(p[2][3] - e) * (p[1][2] \div g),
             (p[1][2] \div g) * p[2][2], e))))

Neg(x) == <<-x[1], x[2], x[3]>>

Sub(x, y) == Add(x, Neg(y))

Inv(x) == Num(Sign(x[1]) * x[2], Abs(x[1]), -x[3])

NumAbs(x) == <<Abs(x[1]), x[2], x[3]>>

IsNonNeg(x) == x[1] >= 0

\* The integer whose square is k, or -1 when k is not a perfect square.
RECURSIVE ISqrtFrom(_, _)
ISqrtFrom(k, i) == IF i * i = k THEN i ELSE IF i * i > k THEN -1 ELSE ISqrtFrom(k, i + 1)

(***************************************************************************)
(* Vectors and matrices.                                                   *)
(***************************************************************************)
RECURSIVE SumSeq(_)
SumSeq(s) == Bind(s, LAMBDA t : IF t = <<>> THEN I(0) ELSE Add(Head(t), SumSeq(Tail(t))))

Dot(x, y) == Bind(<<x, y>>, LAMBDA p : SumSeq([i \in 1..Len(p[1]) |-> Mul(p[1][i], p[2][i])]))

VSub(x, y) == [i \in 1..Len(x) |-> Sub(x[i], y[i])]

VScale(c, x) == [i \in 1..Len(x) |-> Mul(c, x[i])]

Shape(M) == <<Len(M), IF Len(M) = 0 THEN 0 ELSE Len(M[1])>>

MatVec(M, x) == Bind(<<M, x>>, LAMBDA p : [i \in 1..Len(p[1]) |-> Dot(p[1][i], p[2])])

Transpose(M) == [j \in 1..Shape(M)[2] |-> [i \in 1..Len(M) |-> M[i][j]]]

MatMul(A, B) == Bind(<<A, Transpose(B)>>, LAMBDA p :
    [i \in 1..Len(p[1]) |-> [j \in 1..Len(p[2]) |-> Dot(p[1][i], p[2][j])]])

VAdd(x, y) == [i \in 1..Len(x) |-> Add(x[i], y[i])]

IntVec(s) == [i \in 1..Len(s) |-> I(s[i])]

\* A matrix with a on the diagonal, b right above it and c right below it.
Band(rows, cols, a, b, c) ==
    [i \in 1..rows |-> [j \in 1..cols |->
        I(IF i = j THEN a ELSE IF j = i + 1 THEN b ELSE IF i = j + 1 THEN c ELSE 0)]]

\* scipy.sparse.csr_matrix.dot: the matrix-vector product.
csr_dot(M, x) == MatVec(M, x)

\* Utils.sdiag: the diagonal matrix of a vector.
sdiag(v) == [i \in 1..Len(v) |-> [j \in 1..Len(v) |-> IF i = j THEN v[i] ELSE I(0)]]

\* Utils.mkvc: a vector stays a vector.
mkvc(v) == v

\* numpy.linalg.norm(v, 2) of an integer-valued vector whose norm is an integer.
norm2(v) == I(ISqrtFrom(SumSeq([i \in 1..Len(v) |-> Mul(v[i], v[i])])[1]
                         * Pow10(SumSeq([i \in 1..Len(v) |-> Mul(v[i], v[i])])[3]), 0))

(***************************************************************************)
(* The collaborators of the data misfit: a survey with observed data dobs, *)
(* optional defaults std and eps, and, when paired, a forward problem whose*)
(* predicted data is J*m and whose approximate Jacobian is Ja.             *)
(***************************************************************************)
\* What an operation leaves behind: the exception raised (or "none"), the
\* object afterwards, the value returned, the message of the exception and
\* the fields handed to the survey.
Raise(name, o) == [err |-> name, obj |-> o, val |-> None, msg |-> None, f |-> None]

Return(o, v) == [err |-> "none", obj |-> o, val |-> Some(v), msg |-> None, f |-> None]

nD(s) == Len(s.dobs)

\* prob.fields(m): the fields of the forward problem for the model m.
fields(s, m) == [model |-> m]

\* survey.dpred(m, f): the data predicted from the fields f.
dpred(s, m, f) == MatVec(s.J, f.model)

\* survey.residual(m, f) = mkvc(dpred(m, f) - dobs)
residual(s, m, f) == mkvc(VSub(dpred(s, m, f), s.dobs))

\* prob.Jtvec(m, row, f): the transpose of the Jacobian applied to row.
Jtvec(s, m, row, f) == Bind(Transpose(s.J), LAMBDA JT : MatVec(JT, row))

\* prob.Jvec_approx(m, v, f) and prob.Jtvec_approx(m, row, f)
Jvec_approx(s, m, v, f) == MatVec(s.Ja, v)

Jtvec_approx(s, m, row, f) == Bind(Transpose(s.Ja), LAMBDA JT : MatVec(JT, row))

\* Utils.setKwargs as ObjectiveFunction.__init__ applies it: every keyword
\* given replaces the attribute of that name.
setKwargs(o, kwargs) ==
    [o EXCEPT !.std = IF kwargs.std = None THEN @ ELSE kwargs.std,
              !.eps = IF kwargs.eps = None THEN @ ELSE kwargs.eps,
              !.scale = IF kwargs.scale = None THEN @ ELSE kwargs.scale[1]]

(***************************************************************************)
(* str.format on a template of literal pieces, named fields {name} and     *)
(* positional fields {i}: a positional field beyond the positional         *)
(* arguments raises IndexError, a named field that is no keyword KeyError. *)
(***************************************************************************)
Lit(s) == [kind |-> "lit", s |-> s, i |-> 0]

Named(s) == [kind |-> "name", s |-> s, i |-> 0]

Indexed(i) == [kind |-> "index", s |-> "", i |-> i]

Shown(v) == [kind |-> "val", s |-> "", i |-> v]

RECURSIVE FormatFrom(_, _, _, _)
FormatFrom(template, k, args, kwargs) ==
    IF k > Len(template) THEN [err |-> "none", text |-> <<>>]
    ELSE LET p == template[k]
             rest == FormatFrom(template, k + 1, args, kwargs)
         IN  IF p.kind = "index" /\ p.i >= Len(args) THEN [err |-> "IndexError", text |-> <<>>]
             ELSE IF p.kind = "name" /\ p.s \notin DOMAIN kwargs THEN [err |-> "KeyError", text |-> <<>>]
             ELSE IF rest.err # "none" THEN rest
             ELSE [err |-> "none",
                   text |-> <<(IF p.kind = "index" THEN Shown(args[p.i + 1])
                               ELSE IF p.kind = "name" THEN Shown(kwargs[p.s])
                               ELSE p)>> \o rest.text]

Format(template, args, kwargs) == FormatFrom(template, 1, args, kwargs)

(***************************************************************************)
(* BaseDataMisfit and l2_DataMisfit.  An instance is a record: cls, whether*)
(* the attributes survey and prob were set, std, eps, scale and _W.        *)
(***************************************************************************)
DefaultStd == Num(5, 100, 0)

eps_factor == Num(1, 100000, 0)

NoMisfit == [cls |-> "none", hasSurvey |-> FALSE, std |-> None, eps |-> None,
             scale |-> I(1), W |-> None]

BaseDataMisfit_init(cls, s, kwargs) ==
    IF ~s.ispaired THEN Raise("AssertionError", NoMisfit)
    ELSE Return(setKwargs([NoMisfit EXCEPT !.cls = cls, !.hasSurvey = s.isBase], kwargs), None)

l2_DataMisfit_init(s, kwargs) ==
    LET b == BaseDataMisfit_init("l2_DataMisfit", s, kwargs)
        o == b.obj
    IN  IF b.err # "none" THEN b
        ELSE IF (o.std = None \/ o.eps = None) /\ ~o.hasSurvey
        THEN Raise("AttributeError", NoMisfit)
        ELSE Return([o EXCEPT
                 !.std = IF o.std # None THEN o.std
                         ELSE IF s.std = None THEN Some(DefaultStd) ELSE s.std,
                 !.eps = IF o.eps # None THEN o.eps
                         ELSE IF s.eps = None
                         THEN Some(Mul(norm2(mkvc(s.dobs)), eps_factor))
                         ELSE s.eps], None)

\* W_getter without the test of _W: the default is rebuilt at every read.
W_getter_rebuilds(o, s) ==
    [o EXCEPT !.W = Some(sdiag([i \in 1..nD(s) |->
        Inv(Add(Mul(NumAbs(s.dobs[i]), o.std[1]), o.eps[1]))]))]

\* The getter of W: builds and stores the default on the first read.
W_getter(o, s) ==
    IF o.W = None
    THEN [o EXCEPT !.W = Some(sdiag([i \in 1..nD(s) |->
              Inv(Add(Mul(NumAbs(s.dobs[i]), o.std[1]), o.eps[1]))]))]
    ELSE o

\* A read of the property W.
W_read(o, s) ==
    IF o.W = None /\ ~o.hasSurvey THEN Raise("AttributeError", o)
    ELSE Return(W_getter(o, s), W_getter(o, s).W[1])

WShapeMessage == <<Lit("W must have shape ("), Named("nD"), Lit(","), Named("nD"),
                   Lit("), not ("), Named("val0"), Lit(", val"), Indexed(1), Lit(")")>>

\* The setter of W.  value is [ndim, a]: a vector (ndim 1) or a matrix.
W_setter(o, s, value) ==
    IF ~o.hasSurvey THEN Raise("AttributeError", o)
    ELSE LET v2 == IF value.ndim < 2 THEN sdiag(value.a) ELSE value.a
             m == Format(WShapeMessage, <<>>,
                         [nD |-> nD(s), val0 |-> Shape(v2)[1], val1 |-> Shape(v2)[2]])
         IN  IF Shape(v2) = <<nD(s), nD(s)>> THEN Return([o EXCEPT !.W = Some(v2)], None)
             ELSE IF m.err # "none" THEN Raise(m.err, o)
             ELSE [Raise("AssertionError", o) EXCEPT !.msg = Some(m.text)]

\* l2_call with the scale of the misfit applied to the value, as deriv applies it.
l2_call_scaled(o, s, m, f) ==
    IF ~o.hasSurvey THEN Raise("AttributeError", o)
    ELSE Bind(IF f = None THEN fields(s, m) ELSE f[1], LAMBDA f1 :
         Bind(W_getter(o, s), LAMBDA o1 :
         Bind(csr_dot(o1.W[1], residual(s, m, f1)), LAMBDA vec :
         [Return(o1, Mul(o1.scale, Mul(Num(1, 2, 0), Dot(vec, vec)))) EXCEPT !.f = Some(f1)])))

l2_call(o, s, m, f) ==
    IF ~o.hasSurvey THEN Raise("AttributeError", o)
    ELSE Bind(IF f = None THEN fields(s, m) ELSE f[1], LAMBDA f1 :
         Bind(W_getter(o, s), LAMBDA o1 :
         Bind(csr_dot(o1.W[1], residual(s, m, f1)), LAMBDA W_res :
         Bind(W_res, LAMBDA vec :
         [Return(o1, Mul(Num(1, 2, 0), Dot(vec, vec))) EXCEPT !.f = Some(f1)]))))

l2_deriv(o, s, m, f) ==
    IF ~o.hasSurvey THEN Raise("AttributeError", o)
    ELSE Bind(IF f = None THEN fields(s, m) ELSE f[1], LAMBDA f1 :
         Bind(W_getter(o, s), LAMBDA o1 :
         Bind(csr_dot(o1.W[1], residual(s, m, f1)), LAMBDA w_d :
         Bind(Transpose(o1.W[1]), LAMBDA WT :
         Bind(VScale(o1.scale, w_d), LAMBDA scaled :
         Bind(csr_dot(WT, scaled), LAMBDA wtw_d :
         Bind(wtw_d, LAMBDA row :
         [Return(o1, Jtvec(s, m, row, f1)) EXCEPT !.f = Some(f1)])))))))

\* l2_deriv2 with W applied twice instead of W and then its transpose.
l2_deriv2_noTranspose(o, s, m, v, f) ==
    IF ~o.hasSurvey THEN Raise("AttributeError", o)
    ELSE Bind(IF f = None THEN fields(s, m) ELSE f[1], LAMBDA f1 :
         Bind(Jvec_approx(s, m, v, f1), LAMBDA jtvec :
         Bind(W_getter(o, s), LAMBDA o1 :
         Bind(csr_dot(o1.W[1], jtvec), LAMBDA w_jtvec :
         Bind(csr_dot(o1.W[1], w_jtvec), LAMBDA row :
         [Return(o1, Jtvec_approx(s, m, row, f1)) EXCEPT !.f = Some(f1)])))))

l2_deriv2(o, s, m, v, f) ==
    IF ~o.hasSurvey THEN Raise("AttributeError", o)
    ELSE Bind(IF f = None THEN fields(s, m) ELSE f[1], LAMBDA f1 :
         Bind(Jvec_approx(s, m, v, f1), LAMBDA jtvec :
         Bind(W_getter(o, s), LAMBDA o1 :
         Bind(csr_dot(o1.W[1], jtvec), LAMBDA w_jtvec :
         Bind(Transpose(o1.W[1]), LAMBDA WT :
         Bind(csr_dot(WT, w_jtvec), LAMBDA wtw_jtvec :
         Bind(wtw_jtvec, LAMBDA row :
         [Return(o1, Jtvec_approx(s, m, row, f1)) EXCEPT !.f = Some(f1)])))))))

(***************************************************************************)
(* The inputs of the data misfit.                                          *)
(***************************************************************************)
Models == {IntVec(x) : x \in [1..NP -> 0..MaxM]}

OnesModel == IntVec([i \in 1..NP |-> 1])

\* dobs has one non-zero datum, so that its 2-norm is an integer; a survey
\* that gives no eps has a datum of magnitude one, which keeps the default
\* floor 1e-5 * ||dobs|| and the weights built from it exactly representable.
UnitDobs == {IntVec([i \in 1..ND |-> IF i = 1 THEN 1 ELSE 0]),
             IntVec([i \in 1..ND |-> IF i = ND THEN -1 ELSE 0])}

DobsSet == {IntVec([i \in 1..ND |-> IF i = 1 THEN d ELSE 0]) : d \in 1..MaxD}
           \cup {IntVec([i \in 1..ND |-> IF i = ND THEN -d ELSE 0]) : d \in 1..MaxD}

Jacobians == {Band(ND, NP, 1, 1, 0), Band(ND, NP, 2, 0, -1)}

SurveySet == {s \in [isBase : BOOLEAN, ispaired : BOOLEAN, dobs : DobsSet,
                     std : {None, Some(Num(1, 50, 0))}, eps : {None, Some(I(1))},
                     J : Jacobians, Ja : Jacobians] :
                 /\ s.Ja # s.J
                 /\ s.std = None <=> s.eps = None
                 /\ s.eps = None => s.dobs \in UnitDobs}

KwargsSet == {[std |-> None, eps |-> None, scale |-> None],
              [std |-> Some(Num(3, 100, 0)), eps |-> None, scale |-> Some(I(2))],
              [std |-> None, eps |-> Some(Num(1, 2, 0)), scale |-> None],
              [std |-> Some(Num(3, 100, 0)), eps |-> Some(Num(1, 2, 0)), scale |-> None]}

FieldsArgs == {None, Some([model |-> OnesModel])}

\* The values assigned to W: vectors (of the right and of a wrong length) and
\* matrices (of the right and of a wrong shape).
WVectors ==
    {[ndim |-> 1, a |-> IntVec(x)] : x \in [1..ND -> 1..MaxW]}
    \cup {[ndim |-> 1, a |-> IntVec([i \in 1..k |-> 1])] : k \in {ND - 1, ND + 1}}

WMatrices ==
    {[ndim |-> 2, a |-> Band(ND, ND, 1, b, 0)] : b \in {-1, MaxW}}
    \cup {[ndim |-> 2, a |-> Band(ND, ND + 1, 1, 0, 0)],
          [ndim |-> 2, a |-> Band(ND + 1, ND, 1, 0, 0)]}

NoArgs == [m |-> None, v |-> None, f |-> None, value |-> None, prevW |-> None]

Done(op, r, args) == [op |-> op, err |-> r.err, val |-> r.val, msg |-> r.msg,
                      f |-> r.f, args |-> args]

(***************************************************************************)
(* The operations on the data misfit.                                      *)
(***************************************************************************)
ConstructBase ==
    /\ dmis.cls = "none"
    /\ \E r \in {BaseDataMisfit_init("BaseDataMisfit", survey,
                                    [std |-> None, eps |-> None, scale |-> None])} :
           /\ dmis' = r.obj
           /\ ret' = Done("BaseDataMisfit", r, NoArgs)
    /\ UNCHANGED <<survey, prob, src, sret>>

ConstructL2 ==
    /\ dmis.cls = "none"
    /\ \E kwargs \in KwargsSet :
         \E r \in {l2_DataMisfit_init(survey, kwargs)} :
             /\ dmis' = r.obj
             /\ ret' = Done("l2_DataMisfit", r, NoArgs)
    /\ UNCHANGED <<survey, prob, src, sret>>

ReadW ==
    /\ dmis.cls = "l2_DataMisfit"
    /\ \E r \in {W_read(dmis, survey)} :
           /\ dmis' = r.obj
           /\ ret' = Done("W", r, [NoArgs EXCEPT !.prevW = dmis.W])
    /\ UNCHANGED <<survey, prob, src, sret>>

SetWTo(value) ==
    \E r \in {W_setter(dmis, survey, value)} :
        /\ dmis' = r.obj
        /\ ret' = Done("setW", r, [NoArgs EXCEPT !.value = Some(value), !.prevW = dmis.W])

SetW ==
    /\ dmis.cls = "l2_DataMisfit"
    /\ \/ \E value \in WVectors : SetWTo(value)
       \/ \E value \in WMatrices : SetWTo(value)
    /\ UNCHANGED <<survey, prob, src, sret>>

Call ==
    /\ dmis.cls = "l2_DataMisfit"
    /\ \E m \in Models, f \in FieldsArgs :
         \E r \in {l2_call(dmis, survey, m, f)} :
             /\ dmis' = r.obj
             /\ ret' = Done("call", r, [NoArgs EXCEPT !.m = Some(m), !.f = f])
    /\ UNCHANGED <<survey, prob, src, sret>>

Deriv ==
    /\ dmis.cls = "l2_DataMisfit"
    /\ \E m \in Models, f \in FieldsArgs :
         \E r \in {l2_deriv(dmis, survey, m, f)} :
             /\ dmis' = r.obj
             /\ ret' = Done("deriv", r, [NoArgs EXCEPT !.m = Some(m), !.f = f])
    /\ UNCHANGED <<survey, prob, src, sret>>

Deriv2 ==
    /\ dmis.cls = "l2_DataMisfit"
    /\ \E m \in Models, v \in Models :
         \E r \in {l2_deriv2(dmis, survey, m, v, None)} :
             /\ dmis' = r.obj
             /\ ret' = Done("deriv2", r, [NoArgs EXCEPT !.m = Some(m), !.v = Some(v)])
    /\ UNCHANGED <<survey, prob, src, sret>>

\* The values std, eps and survey.dobs are changed to after construction.
StdValues == {DefaultStd, Num(3, 100, 0)}

EpsValues == {Num(1, 2, 0)}

\* misfit.std = x
SetStd ==
    /\ dmis.cls = "l2_DataMisfit"
    /\ \E x \in StdValues :
           /\ dmis' = [dmis EXCEPT !.std = Some(x)]
           /\ ret' = Done("setStd", Return(dmis, None), NoArgs)
    /\ UNCHANGED <<survey, prob, src, sret>>

\* misfit.eps = x
SetEps ==
    /\ dmis.cls = "l2_DataMisfit"
    /\ \E x \in EpsValues :
           /\ dmis' = [dmis EXCEPT !.eps = Some(x)]
           /\ ret' = Done("setEps", Return(dmis, None), NoArgs)
    /\ UNCHANGED <<survey, prob, src, sret>>

\* survey.dobs = d
SetDobs ==
    /\ dmis.cls = "l2_DataMisfit"
    /\ \E d \in UnitDobs :
           /\ survey' = [survey EXCEPT !.dobs = d]
           /\ ret' = Done("setDobs", Return(dmis, None), NoArgs)
    /\ UNCHANGED <<dmis, prob, src, sret>>

(***************************************************************************)
(* Waveforms.  A waveform object is a record: its class, hasInitialFields  *)
(* ("True", "False", or "Property" while the attribute is still the class's*)
(* properties.Bool object), offTime and waveFct.  Objects that are no      *)
(* waveform are records of the same shape; isWaveform says whether the     *)
(* object is an instance of BaseWaveform, hasAssert whether it has a method*)
(* _assertMatchesPair.                                                     *)
(***************************************************************************)
Failed(name) == [err |-> name, val |-> None, msg |-> None]

Gave(v) == [err |-> "none", val |-> Some(v), msg |-> None]

NewObject(cls) == [cls |-> cls, isWaveform |-> TRUE, hasAssert |-> TRUE,
                   hasInitialFields |-> "Property", offTime |-> None, waveFct |-> "None"]

\* BaseWaveform.__init__(self, **kwargs): it takes no positional argument
\* besides self; Utils.setKwargs sets the attributes the keywords name.
BaseWaveform_init(self, positional, kwargs) ==
    IF Len(positional) > 0 THEN Failed("TypeError")
    ELSE Gave([self EXCEPT
             !.offTime = IF kwargs.offTime = None THEN @ ELSE kwargs.offTime,
             !.hasInitialFields = IF kwargs.hasInitialFields = None THEN @
                                  ELSE kwargs.hasInitialFields[1]])

StepOffWaveform_init(offTime) ==
    BaseWaveform_init(NewObject("StepOffWaveform"), <<>>,
                      [offTime |-> Some(offTime), hasInitialFields |-> Some("True")])

RawWaveform_init(offTime, waveFct, kwargs) ==
    BaseWaveform_init([NewObject("RawWaveform") EXCEPT !.waveFct = waveFct], <<>>,
                      [offTime |-> Some(offTime), hasInitialFields |-> kwargs.hasInitialFields])

TriangularWaveform_init(offTime) ==
    BaseWaveform_init(NewObject("TriangularWaveform"), <<offTime>>,
                      [offTime |-> None, hasInitialFields |-> Some("True")])

\* waveform.eval(time)
Waveform_eval(w, time) ==
    IF w.cls = "StepOffWaveform" THEN Gave(0)
    ELSE IF w.cls = "RawWaveform"
    THEN (IF w.waveFct = "None" THEN Failed("TypeError")
          ELSE IF w.waveFct = "ramp" THEN Gave(time)
          ELSE Gave(1))
    ELSE Failed("NotImplementedError")

\* BaseWaveform._assertMatchesPair(self, pair) with pair = BaseWaveform; the
\* message keeps its %s, format having no {} field to fill.
assertMatchesPair(w) ==
    IF w.isWaveform THEN Gave(w)
    ELSE [Failed("AssertionError") EXCEPT !.msg =
              Some(Format(<<Lit("Waveform object must be an instance of a %s BaseWaveform class.")>>,
                          <<"BaseWaveform">>, <<>>).text)]

WaveFcts == {"None", "ramp"}

HasInitialFieldsArgs == {None, Some("True"), Some("False")}

\* What the waveform constructors are called with.
WaveformCalls ==
    [cls : {"StepOffWaveform", "TriangularWaveform"}, offTime : {0}, waveFct : {"None"},
     hasInitialFields : {None}]
    \cup [cls : {"RawWaveform"}, offTime : {0}, waveFct : WaveFcts,
          hasInitialFields : HasInitialFieldsArgs]

NewWaveform(c) ==
    IF c.cls = "StepOffWaveform" THEN StepOffWaveform_init(c.offTime)
    ELSE IF c.cls = "TriangularWaveform" THEN TriangularWaveform_init(c.offTime)
    ELSE RawWaveform_init(c.offTime, c.waveFct, [hasInitialFields |-> c.hasInitialFields])

\* The waveform objects that exist: those a constructor returned.
Waveforms == {NewWaveform(c).val[1] : c \in {x \in WaveformCalls : NewWaveform(x).err = "none"}}

\* Objects that are no BaseWaveform: one without and one with a method
\* _assertMatchesPair of its own.
NotWaveforms ==
    {[NewObject("int") EXCEPT !.isWaveform = FALSE, !.hasAssert = FALSE],
     [NewObject("Duck") EXCEPT !.isWaveform = FALSE, !.hasAssert = TRUE]}

(***************************************************************************)
(* Sources.  The attributes a class body defines, by kind, and the method  *)
(* resolution order decide what self.<name> finds.                         *)
(***************************************************************************)
ClassBody(cls) ==
    IF cls = "BaseTDEMSrc"
    THEN [waveformPair |-> "attr", waveform |-> "property", bInitial |-> "method",
          bInitialDeriv |-> "method", eInitial |-> "method", eInitialDeriv |-> "method",
          hInitial |-> "method", hInitialDeriv |-> "method", jInitial |-> "method",
          jInitialDeriv |-> "method", eval |-> "method", evalDeriv |-> "method",
          s_m |-> "method", s_e |-> "method", s_mDeriv |-> "method", s_eDeriv |-> "method"]
    ELSE IF cls = "MagDipole"
    THEN [moment |-> "attr", mu |-> "attr", orientation |-> "attr", _srcFct |-> "method",
          _bSrc |-> "method", bInitial |-> "method", hInitial |-> "method",
          eInitial |-> "method", eInitialDeriv |-> "method", s_m |-> "method",
          s_e |-> "method"]
    ELSE IF cls = "CircularLoop"
    THEN [radius |-> "attr", _srcFct |-> "method"]
    ELSE IF cls = "LineCurrent"
    THEN [waveform |-> "attr", loc |-> "attr", mu |-> "attr", Mejs |-> "method",
          bInitial |-> "method", eInitial |-> "method", eInitialDeriv |-> "method",
          s_m |-> "method", s_e |-> "method"]
    ELSE \* BaseEMSrc and the classes above it
         [rxList |-> "attr", loc |-> "attr", integrate |-> "attr", rxPair |-> "attr",
          eval |-> "method", evalDeriv |-> "method", s_m |-> "method", s_e |-> "method"]

Mro(cls) ==
    IF cls = "CircularLoop" THEN <<"CircularLoop", "MagDipole", "BaseTDEMSrc", "BaseEMSrc">>
    ELSE IF cls = "MagDipole" THEN <<"MagDipole", "BaseTDEMSrc", "BaseEMSrc">>
    ELSE IF cls = "LineCurrent" THEN <<"LineCurrent", "BaseTDEMSrc", "BaseEMSrc">>
    ELSE <<cls>>

\* The kind of the first definition of name along the resolution order, or
\* "missing".
RECURSIVE LookupFrom(_, _, _)
LookupFrom(mro, k, name) ==
    IF k > Len(mro) THEN "missing"
    ELSE IF name \in DOMAIN ClassBody(mro[k]) THEN ClassBody(mro[k])[name]
    ELSE LookupFrom(mro, k + 1, name)

Lookup(cls, name) == LookupFrom(Mro(cls), 1, name)

\* A source: its class, _waveform (what the property keeps) and waveform
\* (the instance attribute, where the class has no property of that name).
NewSrc(cls) == [cls |-> cls, _waveform |-> None, waveform |-> None]

NoSrc == NewSrc("none")

SRaise(name, o) == [err |-> name, obj |-> o, val |-> None, msg |-> None]

SReturn(o, v) == [err |-> "none", obj |-> o, val |-> v, msg |-> None]

\* self.waveform
waveform_getter(o) ==
    IF Lookup(o.cls, "waveform") = "property" THEN o._waveform ELSE o.waveform

\* The setter of the property waveform.
waveform_setter(o, val) ==
    IF waveform_getter(o) = None
    THEN (IF ~val.hasAssert THEN SRaise("AttributeError", o)
          ELSE IF assertMatchesPair(val).err # "none"
          THEN [SRaise(assertMatchesPair(val).err, o) EXCEPT !.msg = assertMatchesPair(val).msg]
          ELSE SReturn([o EXCEPT !._waveform = Some(val)], None))
    ELSE IF Lookup(o.cls, "StepOffWaveform") = "missing" THEN SRaise("AttributeError", o)
    ELSE SReturn([o EXCEPT !._waveform = Some(StepOffWaveform_init(val).val[1])], None)

\* self.waveform = val
SetAttr_waveform(o, val) ==
    IF Lookup(o.cls, "waveform") = "property" THEN waveform_setter(o, val)
    ELSE SReturn([o EXCEPT !.waveform = Some(val)], None)

\* BaseEMSrc.__init__(self, rxList, **kwargs): sets the attributes the
\* keywords name.
BaseEMSrc_init(o, kwargs) ==
    IF kwargs.waveform = None THEN SReturn(o, None)
    ELSE SetAttr_waveform(o, kwargs.waveform[1])

\* BaseTDEMSrc.__init__(self, rxList, waveform=StepOffWaveform(), **kwargs)
BaseTDEMSrc_init(o, kwargs) ==
    Bind(SetAttr_waveform(o, IF kwargs.waveform = None THEN StepOffWaveform_init(0).val[1]
                             ELSE kwargs.waveform[1]), LAMBDA r :
    IF r.err # "none" THEN r
    ELSE BaseEMSrc_init(r.obj, [waveform |-> None]))

MagDipole_init(kwargs) == BaseTDEMSrc_init(NewSrc("MagDipole"), kwargs)

CircularLoop_init(kwargs) == BaseTDEMSrc_init(NewSrc("CircularLoop"), kwargs)

LineCurrent_init(kwargs) == BaseEMSrc_init(NewSrc("LineCurrent"), kwargs)

(***************************************************************************)
(* The forcing terms.  A vector is the sequence of the operators applied to*)
(* the vector potential a, times a coefficient; Zero is the sentinel.      *)
(***************************************************************************)
Zero == [expr |-> <<"Zero">>, coef |-> 0]

Vec(expr, coef) == [expr |-> expr, coef |-> coef]

\* MagDipole._bSrc(prob)
bSrc(o, p) ==
    IF p.meshType = "CYL" /\ ~p.isSymmetric THEN Failed("NotImplementedError")
    ELSE IF p.formulation \notin {"EB", "HJ"} THEN Failed("UnboundLocalError")
    ELSE Gave(Vec(<<(IF p.formulation = "EB" THEN "C" ELSE "C.T"),
                    (IF p.meshType = "CYL" THEN "a_y" ELSE "a_xyz")>>, 1))

\* prob.timeSteps[i], i counted from 0
timeSteps_at(p, i) ==
    IF i >= Len(p.timeSteps) THEN Failed("IndexError") ELSE Gave(p.timeSteps[i + 1])

\* MagDipole.s_e(prob, time); CircularLoop inherits it.
MagDipole_s_e(o, p, time) ==
    Bind(bSrc(o, p), LAMBDA b :
    Bind(waveform_getter(o)[1], LAMBDA w :
    IF b.err # "none" THEN SRaise(b.err, o)
    ELSE IF p.formulation = "EB"
    THEN (IF w.hasInitialFields = "True" /\ timeSteps_at(p, 1).err # "none"
          THEN SRaise(timeSteps_at(p, 1).err, o)
          ELSE IF w.hasInitialFields = "True" /\ time < timeSteps_at(p, 1).val[1]
          THEN (IF p.fieldType = "b" THEN SReturn(o, Some(Zero))
                ELSE IF p.fieldType = "e"
                THEN SReturn(o, Some(Vec(<<"C.T", "MfMui">> \o b.val[1].expr, 1)))
                ELSE SReturn(o, None))
          ELSE IF Waveform_eval(w, time).err # "none"
          THEN SRaise(Waveform_eval(w, time).err, o)
          ELSE SReturn(o, Some(Vec(<<"C.T", "MfMui">> \o b.val[1].expr,
                                   Waveform_eval(w, time).val[1]))))
    ELSE IF p.formulation = "HJ"
    THEN (IF w.hasInitialFields = "True" /\ timeSteps_at(p, 1).err # "none"
          THEN SRaise(timeSteps_at(p, 1).err, o)
          ELSE IF w.hasInitialFields = "True" /\ time < timeSteps_at(p, 1).val[1]
          THEN (IF p.fieldType = "h" THEN SReturn(o, Some(Zero))
                ELSE IF p.fieldType = "j"
                THEN SReturn(o, Some(Vec(<<"C", "1/mu">> \o b.val[1].expr, 1)))
                ELSE SReturn(o, None))
          ELSE IF Waveform_eval(w, time).err # "none"
          THEN SRaise(Waveform_eval(w, time).err, o)
          ELSE SReturn(o, Some(Vec(<<"C", "1/mu">> \o b.val[1].expr,
                                   Waveform_eval(w, time).val[1]))))
    ELSE SReturn(o, None)))

\* LineCurrent.s_e(prob, time) = Mejs(prob) * waveform.eval(time)
LineCurrent_s_e(o, p, time) ==
    IF waveform_getter(o) = None \/ ~waveform_getter(o)[1].isWaveform
    THEN SRaise("AttributeError", o)
    ELSE IF Waveform_eval(waveform_getter(o)[1], time).err # "none"
    THEN SRaise(Waveform_eval(waveform_getter(o)[1], time).err, o)
    ELSE SReturn(o, Some(Vec(<<"Mejs">>, Waveform_eval(waveform_getter(o)[1], time).val[1])))

(***************************************************************************)
(* The forward problems a source is evaluated on, and the operations on    *)
(* waveforms and sources.                                                  *)
(***************************************************************************)
\* Schedules of 1..MaxSteps equal steps; a tensor mesh is not symmetric.
ProbSet == {p \in [formulation : {"EB", "HJ", "other"}, fieldType : {"e", "b", "h", "j"},
                   timeSteps : {[i \in 1..n |-> dt] : n \in 1..MaxSteps, dt \in 1..MaxDt},
                   meshType : {"TENSOR", "CYL"}, isSymmetric : BOOLEAN] :
               p.meshType = "TENSOR" => ~p.isSymmetric}

SrcKwargs == {[waveform |-> None]} \cup {[waveform |-> Some(w)] : w \in Waveforms \cup NotWaveforms}

NoSArgs == [call |-> None, waveform |-> None, time |-> None, prev |-> None]

SDone(op, r, args) == [op |-> op, err |-> r.err, val |-> r.val, msg |-> r.msg, args |-> args]

SRet0 == [op |-> "none", err |-> "none", val |-> None, msg |-> None, args |-> NoSArgs]

ConstructWaveform ==
    /\ \E c \in WaveformCalls :
         \E r \in {NewWaveform(c)} :
             sret' = SDone("Waveform", r, [NoSArgs EXCEPT !.call = Some(c)])
    /\ UNCHANGED <<survey, dmis, ret, prob, src>>

ConstructSrc ==
    /\ src.cls = "none"
    /\ \E cls \in {"MagDipole", "CircularLoop", "LineCurrent"}, kwargs \in SrcKwargs :
         \E r \in {IF cls = "MagDipole" THEN MagDipole_init(kwargs)
                   ELSE IF cls = "CircularLoop" THEN CircularLoop_init(kwargs)
                   ELSE LineCurrent_init(kwargs)} :
             /\ src' = IF r.err = "none" THEN r.obj ELSE src
             /\ sret' = SDone(cls, r, [NoSArgs EXCEPT !.waveform = kwargs.waveform, !.prev = None])
    /\ UNCHANGED <<survey, dmis, ret, prob>>

SetWaveform ==
    /\ src.cls # "none"
    /\ \E w \in Waveforms \cup NotWaveforms :
         \E r \in {SetAttr_waveform(src, w)} :
             /\ src' = r.obj
             /\ sret' = SDone("setWaveform", r,
                              [NoSArgs EXCEPT !.waveform = Some(w), !.prev = waveform_getter(src)])
    /\ UNCHANGED <<survey, dmis, ret, prob>>

S_e ==
    /\ src.cls # "none"
    /\ \E time \in 0..MaxT :
         \E r \in {IF src.cls = "LineCurrent" THEN LineCurrent_s_e(src, prob, time)
                   ELSE MagDipole_s_e(src, prob, time)} :
             /\ src' = r.obj
             /\ sret' = SDone("s_e", r, [NoSArgs EXCEPT !.time = Some(time)])
    /\ UNCHANGED <<survey, dmis, ret, prob>>

Ret0 == [op |-> "none", err |-> "none", val |-> None, msg |-> None, f |-> None,
         args |-> NoArgs]

Init ==
    /\ survey \in SurveySet
    /\ dmis = NoMisfit
    /\ ret = Ret0
    /\ prob = CHOOSE p \in ProbSet : TRUE
    /\ src = NoSrc
    /\ sret = SRet0

Next == ConstructBase \/ ConstructL2 \/ ReadW \/ SetW \/ Call \/ Deriv \/ Deriv2

Spec == Init /\ [][Next]_vars

\* The waveforms and sources, used with any of the forward problems.
\* The misfit of a paired survey that gives no std and no eps, with std, eps
\* and survey.dobs changed between the evaluations.
InitW ==
    /\ Init
    /\ survey.isBase /\ survey.ispaired
    /\ survey.std = None
    /\ survey.J = Band(ND, NP, 1, 1, 0)

NextW == ConstructL2 \/ ReadW \/ SetW \/ Call \/ Deriv \/ Deriv2 \/ SetStd \/ SetEps \/ SetDobs

SpecW == InitW /\ [][NextW]_vars

InitSrc ==
    /\ survey = CHOOSE s \in SurveySet : TRUE
    /\ dmis = NoMisfit
    /\ ret = Ret0
    /\ prob \in ProbSet
    /\ src = NoSrc
    /\ sret = SRet0

NextSrc == ConstructWaveform \/ ConstructSrc \/ SetWaveform \/ S_e

SpecSrc == InitSrc /\ [][NextSrc]_vars

(***************************************************************************)
(* The claims about the data misfit, checked under Spec.                   *)
(***************************************************************************)
Range(q) == {q[i] : i \in 1..Len(q)}

UnitVec(j) == IntVec([i \in 1..NP |-> IF i = j THEN 1 ELSE 0])

\* The fields the survey was handed in the last evaluation, were they taken
\* from prob.fields(m) whenever the caller gave none.
FieldsOf(args) == IF args.f = None THEN fields(survey, args.m[1]) ELSE args.f[1]

\* C1: __call__(m, f) returns 0.5 * sum_i ((W*r)_i)^2 for r = survey.residual(m, f)
\* and the W of the misfit, and when f is not supplied the fields handed to
\* survey.residual are prob.fields(m).
C1_CallIsHalfSumOfSquares ==
    (ret.op = "call" /\ dmis.hasSurvey) =>
        /\ ret.err = "none"
        /\ ret.f = Some(FieldsOf(ret.args))
        /\ \E Wr \in {MatVec(dmis.W[1], residual(survey, ret.args.m[1], FieldsOf(ret.args)))} :
               ret.val = Some(Mul(Num(1, 2, 0), SumSeq([i \in 1..Len(Wr) |-> Mul(Wr[i], Wr[i])])))

\* A call without fields, of a misfit whose W is a non-symmetric matrix and
\* whose scale is not 1, returning a non-zero misfit.
C1_Witness ==
    /\ ret.op = "call" /\ ret.err = "none" /\ ret.args.f = None
    /\ dmis.W[1][1][2] # I(0) /\ dmis.W[1][2][1] = I(0)
    /\ dmis.scale # I(1)
    /\ ret.val # Some(I(0))

\* C2: deriv(m) is the gradient of the scalar __call__ returns, that is
\* J^T W^T W (J m - dobs), for every m, W and scale of the misfit.
C2_DerivIsGradientOfCall ==
    (ret.op = "deriv" /\ dmis.hasSurvey /\ ret.args.f = None) =>
        /\ ret.err = "none"
        /\ ret.val = Some(MatVec(MatMul(Transpose(survey.J),
                                        MatMul(Transpose(dmis.W[1]), dmis.W[1])),
                                 VSub(MatVec(survey.J, ret.args.m[1]), survey.dobs)))
        /\ \A j \in 1..NP :
               ret.val[1][j] =
                   Mul(Num(1, 2, 0),
                       Sub(l2_call(dmis, survey, VAdd(ret.args.m[1], UnitVec(j)), None).val[1],
                           l2_call(dmis, survey, VSub(ret.args.m[1], UnitVec(j)), None).val[1]))

\* C3: deriv2(m, v) is Ja^T W^T W Ja v for the matrix Ja that Jvec_approx applies
\* and whose transpose Jtvec_approx applies, and v . deriv2(m, v) >= 0.
C3_Deriv2IsGaussNewton ==
    (ret.op = "deriv2" /\ dmis.hasSurvey) =>
        /\ ret.err = "none"
        /\ \E WJ \in {MatMul(dmis.W[1], survey.Ja)} :
               ret.val = Some(MatVec(MatMul(Transpose(WJ), WJ), ret.args.v[1]))
        /\ IsNonNeg(Dot(ret.args.v[1], ret.val[1]))

\* deriv2 under a non-symmetric W, with a positive quadratic form.
C3_Witness ==
    /\ ret.op = "deriv2" /\ ret.err = "none"
    /\ dmis.W[1][1][2] # I(0) /\ dmis.W[1][2][1] = I(0)
    /\ Dot(ret.args.v[1], ret.val[1])[1] > 0

\* The shape of an assigned value once a vector is promoted to a diagonal matrix.
PromotedShape(value) == IF value.ndim < 2 THEN <<Len(value.a), Len(value.a)>> ELSE Shape(value.a)

\* C4: assigning to W a value whose shape is not (nD, nD) fails with a
\* shape-mismatch error whose message names nD and the dimensions of the
\* value, and leaves the stored W as it was.
C4_WrongShapeIsReported ==
    (ret.op = "setW" /\ dmis.hasSurvey
        /\ PromotedShape(ret.args.value[1]) # <<nD(survey), nD(survey)>>) =>
        /\ ret.err = "AssertionError"
        /\ dmis.W = ret.args.prevW
        /\ ret.msg # None
        /\ {Shown(nD(survey)), Shown(PromotedShape(ret.args.value[1])[1]),
            Shown(PromotedShape(ret.args.value[1])[2])} \subseteq Range(ret.msg[1])

\* C10: constructing a data misfit fails whenever the survey is not paired,
\* every instance constructed has its survey and prob, and no later
\* operation fails for want of them.
C10_ConstructedMeansBound ==
    /\ (ret.op \in {"BaseDataMisfit", "l2_DataMisfit"} /\ ~survey.ispaired) =>
           (ret.err # "none" /\ dmis.cls = "none")
    /\ dmis.cls # "none" => dmis.hasSurvey
    /\ ret.op \in {"call", "deriv", "deriv2", "W", "setW"} => ret.err # "AttributeError"

(***************************************************************************)
(* The claims about waveforms and sources, checked under SpecSrc.          *)
(***************************************************************************)
IsDipole(o) == o.cls \in {"MagDipole", "CircularLoop"}

\* C5: assigning a waveform to a source that holds one does not raise, and
\* leaves the source with a StepOffWaveform wrapping the value: eval is 0
\* at every time and hasInitialFields is True.
C5_ReassignmentWraps ==
    (sret.op = "setWaveform" /\ IsDipole(src) /\ sret.args.prev # None) =>
        /\ sret.err = "none"
        /\ src._waveform # None
        /\ src._waveform[1].cls = "StepOffWaveform"
        /\ src._waveform[1].hasInitialFields = "True"
        /\ \A t \in 0..MaxT : Waveform_eval(src._waveform[1], t) = Gave(0)
        /\ src._waveform[1].offTime = sret.args.waveform

\* C6: a TriangularWaveform can be constructed, with hasInitialFields True,
\* and only its eval fails, with NotImplementedError.
C6_TriangularConstructs ==
    /\ (sret.op = "Waveform" /\ sret.args.call[1].cls = "TriangularWaveform") =>
           (sret.err = "none" /\ sret.val[1].hasInitialFields = "True")
    /\ \A w \in Waveforms : w.cls = "TriangularWaveform" =>
           \A t \in 0..MaxT : Waveform_eval(w, t).err = "NotImplementedError"

\* The curl-transform of the initial field that s_e returns, times coef.
CurlTransform(p, coef) ==
    IF p.formulation = "EB" THEN Vec(<<"C.T", "MfMui">> \o bSrc(src, p).val[1].expr, coef)
    ELSE Vec(<<"C", "1/mu">> \o bSrc(src, p).val[1].expr, coef)

\* What the table of s_e gives when the waveform has hasInitialFields = init
\* and the time is, or is not, before the second step.
TableEntry(p, w, time, early) ==
    IF w.hasInitialFields = "True" /\ early
    THEN (IF p.fieldType \in {"b", "h"} THEN SReturn(src, Some(Zero))
          ELSE SReturn(src, Some(CurlTransform(p, 1))))
    ELSE IF Waveform_eval(w, time).err # "none" THEN SRaise(Waveform_eval(w, time).err, src)
    ELSE SReturn(src, Some(CurlTransform(p, Waveform_eval(w, time).val[1])))

Outcome(r) == [err |-> r.err, val |-> r.val]

\* C7: on a supported mesh and with the field type of its formulation, s_e
\* follows the table for every schedule of time steps; a schedule of a
\* single step has no second step for the time to be before or after, and
\* s_e then gives one of the two entries.
C7_SeFollowsTable ==
    (sret.op = "s_e" /\ IsDipole(src) /\ bSrc(src, prob).err = "none"
        /\ <<prob.formulation, prob.fieldType>> \in
               {<<"EB", "e">>, <<"EB", "b">>, <<"HJ", "h">>, <<"HJ", "j">>}) =>
        \E w \in {src._waveform[1]}, t \in {sret.args.time[1]} :
            IF Len(prob.timeSteps) >= 2
            THEN Outcome(sret) = Outcome(TableEntry(prob, w, t, t < prob.timeSteps[2]))
            ELSE Outcome(sret) \in {Outcome(TableEntry(prob, w, t, TRUE)),
                                    Outcome(TableEntry(prob, w, t, FALSE))}

\* C8: s_e of a dipole or loop source returns a vector or Zero, or raises:
\* it never returns None, and it raises for a formulation other than EB, HJ.
C8_SeNeverReturnsNone ==
    (sret.op = "s_e" /\ IsDipole(src)) =>
        /\ sret.err = "none" => sret.val # None
        /\ prob.formulation \notin {"EB", "HJ"} => sret.err # "none"

ConstructorOps == {"MagDipole", "CircularLoop", "LineCurrent"}

\* C9: for every source variant, a waveform that is no BaseWaveform is
\* refused where it is given, no source holds one, and the first waveform
\* given that is a BaseWaveform is stored as given.
C9_WaveformIsChecked ==
    /\ (sret.op \in ConstructorOps \cup {"setWaveform"} /\ sret.args.waveform # None
            /\ ~sret.args.waveform[1].isWaveform) => sret.err # "none"
    /\ (src.cls # "none" /\ waveform_getter(src) # None) => waveform_getter(src)[1].isWaveform
    /\ (sret.op \in ConstructorOps \cup {"setWaveform"} /\ sret.args.waveform # None
            /\ sret.args.prev = None /\ sret.args.waveform[1].isWaveform) =>
           (sret.err = "none" /\ waveform_getter(src) = sret.args.waveform)

(***************************************************************************)
(* The claim about the stored W, checked under SpecW.                      *)
(***************************************************************************)
\* The default weighting built from dobs, std and eps.
DefaultW(dobs, std, eps) ==
    sdiag([i \in 1..Len(dobs) |-> Inv(Add(Mul(NumAbs(dobs[i]), std), eps))])

ReadsOfW == {"W", "call", "deriv", "deriv2"}

\* One step of a misfit that has its survey: a W that is stored stays as it
\* is unless W is assigned; a read or an evaluation that finds none builds
\* the default from dobs, std and eps as they are then and stores it; a
\* read returns what is stored; an assignment stores the assigned value.
C11_Step ==
    (dmis.cls = "l2_DataMisfit" /\ dmis.hasSurvey) =>
        /\ (dmis.W # None /\ ~(ret'.op = "setW" /\ ret'.err = "none")) => dmis'.W = dmis.W
        /\ (dmis.W = None /\ ret'.op \in ReadsOfW) =>
               dmis'.W = Some(DefaultW(survey.dobs, dmis.std[1], dmis.eps[1]))
        /\ (dmis.W = None /\ ret'.op \notin ReadsOfW \cup {"setW"}) => dmis'.W = None
        /\ ret'.op = "W" => (ret'.err = "none" /\ ret'.val = dmis'.W)
        /\ (ret'.op = "setW" /\ ret'.err = "none") =>
               dmis'.W = Some(IF ret'.args.value[1].ndim < 2 THEN sdiag(ret'.args.value[1].a)
                              ELSE ret'.args.value[1].a)

\* C11: W is computed once and then only read: the first read of a W never
\* set builds the default from dobs, std and eps at that read and stores
\* it, every later read and evaluation leaves and returns that stored
\* matrix even after std, eps or survey.dobs are changed, and once W is
\* assigned every later read returns the assigned value.
C11_WComputedOnce == [][C11_Step]_vars

\* A read of W that returns a default built earlier, from other values of
\* dobs, std and eps than the misfit and its survey have at the read.
C11_Witness ==
    /\ ret.op = "W" /\ ret.err = "none" /\ ret.args.prevW = ret.val
    /\ \E d \in UnitDobs, x \in StdValues :
         \E e \in EpsValues \cup {Mul(norm2(mkvc(d)), eps_factor)} :
           /\ ret.val = Some(DefaultW(d, x, e))
           /\ d # survey.dobs /\ Some(x) # dmis.std /\ Some(e) # dmis.eps
    /\ ret.val # Some(DefaultW(survey.dobs, dmis.std[1], dmis.eps[1]))

====
